---- MODULE Spec2Model ----
(***************************************************************************)
(* Tour-booking widget: the room-configuration generator and the           *)
(* RoomConfiguration component (components/RoomConfiguration.tsx), and the *)
(* price computation of the TourDetail component                           *)
(* (components/TourDetail.tsx).                                            *)
(*                                                                         *)
(* Four specifications share the variables:                                *)
(*   SpecRooms   : the RoomConfiguration component on its own;             *)
(*   SpecPrice   : one render of TourDetail over sampled tours;            *)
(*   Spec        : the selection handlers of the TourDetail form;          *)
(*   SpecBooking : the form with contact fields and handleBooking.         *)
(*                                                                         *)
(* JavaScript values are represented as follows.                           *)
(*   - null / undefined : the empty tuple <<>>; a value v that may be      *)
(*     absent is the one-element tuple <<v>>.                              *)
(*   - a number that carries money in TourDetail : a fixed-point integer   *)
(*     counting 1/Scale currency units, so that Math.round has something   *)
(*     to round.  Numbers of the room generator are plain integers.        *)
(*   - an array : a sequence.                                              *)
(***************************************************************************)
EXTENDS Integers, Sequences, FiniteSets, TLC

VARIABLES
    \* RoomConfiguration component
    totalPax,            \* prop totalPax
    configurations,      \* useState: configurations
    \* TourDetail component
    tour,                \* prop tour
    selectedDate,        \* useState: selectedDate ("" when none)
    adults,              \* useState: adults
    childrenWithBed,     \* useState: childrenWithBed
    childrenWithoutBed,  \* useState: childrenWithoutBed
    selectedRoomConfig,  \* useState: selectedRoomConfig (null or <<config>>)
    selectedAddons,      \* useState: selectedAddons (sequence of add-on ids)
    \* values computed by the last render of TourDetail
    pricePerPerson, basePrice, childrenPrice, roomPrice, addonsPrice, totalPrice,
    customerName,        \* useState: customerName
    customerEmail,       \* useState: customerEmail
    customerPhone,       \* useState: customerPhone
    error,               \* useState: error ("" when none)
    isProcessing,        \* useState: isProcessing
    pendingBooking,      \* onBookingComplete was called and has not settled
    lastStep,            \* history: what the last handler did: "roomCleared"
                         \* (a passenger button reset a selected room
                         \* configuration), "rejected" or "accepted"
                         \* (handleBooking), "" otherwise
    pc,                  \* which step the modelled component is at
    \* BookingWidget component and its environment
    testMode,            \* REACT_APP_ENABLE_TEST_MODE === 'true'
    submitted,           \* the bookingData handleBooking was called with
    widget,              \* where BookingWidget.handleBooking or the Razorpay
                         \* handler it installed is waiting
    result,              \* how the call of BookingWidget.handleBooking ended
    orderAmount,         \* amount of the payment order that was requested
    draft,               \* sessionStorage item 'pendingBooking'
    confirmedBooking,    \* useState: confirmedBooking
    alerted,             \* the alert of the Razorpay handler was shown
    route,               \* the page the browser is on
    locationState,       \* location.state of the last navigation
    \* PaymentResponse component
    hasOrderId,          \* the URL carries order_id or orderId
    status,              \* useState: status
    message,             \* useState: message
    run,                 \* where verifyPayment of the loaded page is waiting,
                         \* or where it returned
    loads,               \* how often the payment-response page was loaded
    \* the backend and the gateway, as far as the properties need them
    paid,                \* the gateway took the payment
    verified,            \* the backend verified the payment successfully
    requests,            \* booking-creation requests sent so far
    inflight,            \* booking-creation requests of pages that were
                         \* reloaded before the response came
    created,             \* bookings the backend created
    createFailed         \* the last booking-creation call of the page failed

roomVars   == <<totalPax, configurations>>
formVars   == <<tour, selectedDate, adults, childrenWithBed, childrenWithoutBed,
                selectedAddons>>
renderVars == <<pricePerPerson, basePrice, childrenPrice, roomPrice, addonsPrice,
                totalPrice>>
bookingVars == <<customerName, customerEmail, customerPhone, error, isProcessing,
                 pendingBooking, lastStep>>
widgetVars == <<testMode, submitted, widget, result, orderAmount, draft,
                confirmedBooking, alerted, route, locationState>>
responseVars == <<hasOrderId, status, message, run, loads>>
backendVars == <<paid, verified, requests, inflight, created, createFailed>>
payVars == <<widgetVars, responseVars, backendVars>>
vars == <<roomVars, formVars, selectedRoomConfig, renderVars, bookingVars, pc,
          payVars>>

(***************************************************************************)
(* Bounds                                                                  *)
(***************************************************************************)
MaxPax == 11         \* largest totalPax handed to RoomConfiguration

null == <<>>
Some(v) == <<v>>

\* useState('') of the contact fields and of error, useState(false) of
\* isProcessing
InitBookingVars ==
    /\ customerName = "" /\ customerEmail = "" /\ customerPhone = ""
    /\ error = "" /\ isProcessing = FALSE
    /\ pendingBooking = FALSE /\ lastStep = ""

\* useState(null) of confirmedBooking, useState('loading') of status,
\* useState('Processing your payment...') of message; nothing was submitted,
\* stored, paid or requested yet
InitPayVars ==
    /\ submitted = null /\ widget = "idle" /\ result = ""
    /\ orderAmount = null /\ draft = null /\ confirmedBooking = null
    /\ alerted = FALSE /\ route = "/book/t1" /\ locationState = null
    /\ hasOrderId = FALSE /\ status = "loading"
    /\ message = "Processing your payment..."
    /\ run = "none" /\ loads = 0
    /\ paid = FALSE /\ verified = FALSE /\ requests = 0 /\ inflight = 0
    /\ created = 0 /\ createFailed = FALSE

(***************************************************************************)
(* generateRoomConfigurations                                              *)
(***************************************************************************)
ROOM_RATE == 500

isValidAtMost(pax, single, double, twin) ==
    single + double * 2 + twin * 2 <= pax

isValid(pax, single, double, twin) ==
    single + double * 2 + twin * 2 = pax

roomBaseCostPerBed(single, double, twin) ==
    (single + double * 2 + twin * 2) * ROOM_RATE

roomBaseCost(single, double, twin) ==
    (single + double + twin) * ROOM_RATE

\* The object pushed for a valid (single, double, twin) when the counter
\* is id.  The id "config-n" is represented by n.
roomConfigSameId(id, single, double, twin) ==
    [id |-> 0, single |-> single, double |-> double, twin |-> twin,
     priceDifference |-> roomBaseCost(single, double, twin)]

\* { id: `config-${id++}`, single, double, twin, priceDifference }
roomConfig(id, single, double, twin) ==
    [id |-> id, single |-> single, double |-> double, twin |-> twin,
     priceDifference |-> roomBaseCost(single, double, twin)]

\* Math.floor(n / 2)
floorHalf(n) == n \div 2

\* The loop conditions: the last value each loop variable takes.
\* twin <= Math.floor((pax - single - double * 2) / 2)
twinLast(pax, single, double) == floorHalf(pax - single - double * 2)

doubleLastStrict(pax, single) == floorHalf(pax - single) - 1

\* double <= Math.floor((pax - single) / 2)
doubleLast(pax, single) == floorHalf(pax - single)

singleLastStrict(pax) == pax - 1

\* single <= pax
singleLast(pax) == pax

\* Each loop is given as the sequence of triples it pushes, in the order it
\* pushes them.
\* for (let twin = 0; ...; twin++) { if (isValid(...)) configs.push(...) }
twinLoop(pax, single, double) ==
    LET visited == [k \in 1..(twinLast(pax, single, double) + 1) |->
                        <<single, double, k - 1>>]
        valid(x) == isValid(pax, x[1], x[2], x[3])
    IN SelectSeq(visited, valid)

\* for (let double = 0; ...; double++) { twin loop }: the iterations 0..double
RECURSIVE doubleLoop(_, _, _)
doubleLoop(pax, single, double) ==
    IF double < 0 THEN <<>>
    ELSE doubleLoop(pax, single, double - 1) \o twinLoop(pax, single, double)

\* for (let single = 0; ...; single++) { double loop }: the iterations 0..single
RECURSIVE singleLoop(_, _)
singleLoop(pax, single) ==
    IF single < 0 THEN <<>>
    ELSE singleLoop(pax, single - 1)
         \o doubleLoop(pax, single, doubleLast(pax, single))

\* configs after the loops: the k-th push happens with id = k - 1
pushedConfigs(pax) ==
    LET pushed == singleLoop(pax, singleLast(pax))
    IN [k \in 1..Len(pushed) |->
            roomConfig(k - 1, pushed[k][1], pushed[k][2], pushed[k][3])]

compareDescending(a, b) == b.priceDifference - a.priceDifference

\* (a, b) => a.priceDifference - b.priceDifference
compare(a, b) == a.priceDifference - b.priceDifference

\* configs.sort(compare): Array.prototype.sort is stable, so element i ends
\* after the elements that compare before it and after the earlier elements
\* that compare equal to it.
sort(configs) ==
    LET n == Len(configs)
        before(j, i) == \/ compare(configs[j], configs[i]) < 0
                        \/ compare(configs[j], configs[i]) = 0 /\ j < i
        position(i) == Cardinality({j \in 1..n : before(j, i)}) + 1
    IN [k \in 1..n |-> configs[CHOOSE i \in 1..n : position(i) = k]]

generateRoomConfigurations(pax) ==
    sort(pushedConfigs(pax))

(***************************************************************************)
(* RoomConfiguration component                                             *)
(***************************************************************************)
\* Math.min(...configurations.map(c => c.priceDifference))
minPriceDifference(configs) ==
    CHOOSE m \in {configs[i].priceDifference : i \in 1..Len(configs)} :
        \A i \in 1..Len(configs) : m <= configs[i].priceDifference

isRecommendedFirstOnly(config, configs) ==
    config.id = configs[1].id

isRecommended(config, configs) ==
    config.priceDifference = minPriceDifference(configs)

(***************************************************************************)
(* TourDetail: price computation                                           *)
(***************************************************************************)
Scale == 2           \* a money value v is the integer v * Scale

\* the JavaScript number n (an integer) as a money value
Num(n) == n * Scale

\* Math.floor(v)
MathFloor(v) == (v \div Scale) * Scale

\* Math.round(v): the nearest integer, a tie going up
MathRound(v) == ((2 * v + Scale) \div (2 * Scale)) * Scale

\* truthiness of a number that may be absent: undefined and 0 are falsy
truthy(o) == o # null /\ o[1] # 0

\* tour.departureSchedule.departures.find(d => d.date === selectedDate)
getSelectedDeparture(t, date) ==
    IF date = "" \/ t.departureSchedule = null THEN null
    ELSE LET deps == t.departureSchedule[1].departures
             hits == {i \in 1..Len(deps) : deps[i].date = date}
         IN IF hits = {} THEN null
            ELSE Some(deps[CHOOSE i \in hits : \A j \in hits : i <= j])

\* selectedDeparture?.pricePerPerson || tour.pricePerPerson || 0
flatPriceTourOnly(t, dep) ==
    IF t.pricePerPerson # 0 THEN t.pricePerPerson ELSE 0

flatPrice(t, dep) ==
    IF dep # null /\ truthy(dep[1].pricePerPerson) THEN dep[1].pricePerPerson[1]
    ELSE IF t.pricePerPerson # 0 THEN t.pricePerPerson
    ELSE 0

\* selectedDeparture?.pricingTiers || tour.pricingTiers  (an array is truthy,
\* an empty one too)
resolvedPricingTiers(t, dep) ==
    IF dep # null /\ dep[1].pricingTiers # null THEN dep[1].pricingTiers[1]
    ELSE t.pricingTiers

\* pricingTiers.find(t => t.pax === pax) || pricingTiers[pricingTiers.length - 1]
findTier(pricingTiers, pax) ==
    LET hits == {i \in 1..Len(pricingTiers) : pricingTiers[i].pax = pax}
    IN IF hits # {}
       THEN pricingTiers[CHOOSE i \in hits : \A j \in hits : i <= j]
       ELSE pricingTiers[Len(pricingTiers)]

getPriceForPax(t, dep, pax) ==
    LET pricingTiers == resolvedPricingTiers(t, dep)
    IN IF Len(pricingTiers) = 0 THEN flatPrice(t, dep)
       ELSE LET tier == findTier(pricingTiers, pax)
            IN IF tier.pricePerPerson # 0 THEN tier.pricePerPerson
               ELSE flatPrice(t, dep)

\* Math.round(adults * pricePerPerson)
computeBasePriceFloor(a, rate) == MathFloor(a * rate)

computeBasePrice(a, rate) == MathRound(a * rate)

\* selectedDeparture?.childWithBed || tour.childWithBed
getChildWithBedPrice(t, dep) ==
    IF dep # null /\ truthy(dep[1].childWithBed) THEN dep[1].childWithBed[1]
    ELSE t.childWithBed

\* selectedDeparture?.childWithoutBed || tour.childWithoutBed
getChildWithoutBedPrice(t, dep) ==
    IF dep # null /\ truthy(dep[1].childWithoutBed) THEN dep[1].childWithoutBed[1]
    ELSE t.childWithoutBed

computeChildrenPrice(t, dep, cwb, cwob) ==
    MathRound(cwb * getChildWithBedPrice(t, dep)
              + cwob * getChildWithoutBedPrice(t, dep))

\* selectedRoomConfig ? Math.round(selectedRoomConfig.priceDifference) : 0
computeRoomPrice(room) ==
    IF room # null THEN MathRound(Num(room[1].priceDifference)) ELSE 0

\* selectedDeparture?.addons || tour.addons
getAvailableAddons(t, dep) ==
    IF dep # null /\ dep[1].addons # null THEN dep[1].addons[1] ELSE t.addons

\* availableAddons.find((a) => a.id === addonId)?.price || 0
addonPriceOfAnyEntry(availableAddons, addonId) ==
    IF availableAddons = <<>> THEN 0 ELSE availableAddons[1].price

addonPriceOf(availableAddons, addonId) ==
    LET hits == {i \in 1..Len(availableAddons) : availableAddons[i].id = addonId}
    IN IF hits = {} THEN 0
       ELSE availableAddons[CHOOSE i \in hits : \A j \in hits : i <= j].price

\* selectedAddons.reduce((sum, addonId) => sum + (addon?.price || 0), 0)
RECURSIVE reduceAddons(_, _)
reduceAddons(availableAddons, ids) ==
    IF ids = <<>> THEN 0
    ELSE reduceAddons(availableAddons, SubSeq(ids, 1, Len(ids) - 1))
         + addonPriceOf(availableAddons, ids[Len(ids)])

computeAddonsPrice(t, dep, ids) ==
    MathRound(reduceAddons(getAvailableAddons(t, dep), ids))

\* Math.round(basePrice + childrenPrice + roomPrice + addonsPrice)
computeTotalPrice(base, children, room, addons) ==
    MathRound(base + children + room + addons)

(***************************************************************************)
(* Input sets                                                              *)
(***************************************************************************)
MaxTiers == 2        \* longest pricing-tier list of a departure
MaxChildren == 2     \* largest count of children with / without bed
PriceMaxAdults == 4  \* largest adults count the price computation is tried on
MaxAddons == 2       \* longest list of selected add-ons

Half == Scale \div 2

\* sequences over S of length 0..n
RECURSIVE SeqsUpTo(_, _)
SeqsUpTo(S, n) ==
    IF n = 0 THEN {<<>>}
    ELSE LET shorter == SeqsUpTo(S, n - 1)
         IN shorter \cup {Append(q, x) : q \in shorter, x \in S}

NoDuplicates(q) == \A i, j \in 1..Len(q) : q[i] = q[j] => i = j

\* metadata?.minTravelers || 2 and metadata?.maxTravelers || 15
DEFAULT_MIN_TRAVELERS == 2
DEFAULT_MAX_TRAVELERS == 15

Departure(date, ppp, tiers, cwb, cwob, addons) ==
    [date |-> date, status |-> "available", pricePerPerson |-> ppp,
     pricingTiers |-> tiers, childWithBed |-> cwb, childWithoutBed |-> cwob,
     addons |-> addons]

Tour(ppp, tiers, cwb, cwob, addons, schedule) ==
    [pricePerPerson |-> ppp, pricingTiers |-> tiers, childWithBed |-> cwb,
     childWithoutBed |-> cwob, addons |-> addons, availableDates |-> <<"d1">>,
     departureSchedule |-> schedule,
     minTravelers |-> DEFAULT_MIN_TRAVELERS, maxTravelers |-> DEFAULT_MAX_TRAVELERS]

Schedule(departure) == Some([departures |-> <<departure>>])

TierPax == {2, 4}
TierRates == {0, Num(1) + Half, Num(18000), Num(20000)}
Tiers == [pax : TierPax, pricePerPerson : TierRates]
TierLists == SeqsUpTo(Tiers, MaxTiers)

ExampleTiers == <<[pax |-> 2, pricePerPerson |-> Num(25000)]>>

\* tours that differ in what decides the per-person rate
RateTours ==
    {Tour(tppp, ttiers, 0, 0, <<>>,
          Schedule(Departure("d1", dppp, dtiers, null, null, null))) :
        tppp \in {0, Num(15000)},
        ttiers \in {<<>>, ExampleTiers},
        dppp \in {null, Some(0), Some(Num(12000))},
        dtiers \in {null} \cup {Some(l) : l \in TierLists}}
    \cup {Tour(tppp, ttiers, 0, 0, <<>>, null) :
        tppp \in {0, Num(15000)}, ttiers \in {<<>>, ExampleTiers}}

\* tours that differ in the child rates
ChildTours ==
    {Tour(Num(15000), <<>>, tcwb, tcwob, <<>>,
          Schedule(Departure("d1", null, null, dcwb, dcwob, null))) :
        tcwb \in {0, Num(14900)},
        tcwob \in {0, Num(5000)},
        dcwb \in {null, Some(0), Some(Num(7) + Half)},
        dcwob \in {null, Some(0), Some(Num(3) + Half)}}

TourAddons == <<[id |-> "a1", price |-> Num(1000)],
                [id |-> "a2", price |-> Num(2) + Half]>>
DepartureAddons == <<[id |-> "a2", price |-> Num(300)],
                     [id |-> "a3", price |-> 0]>>

\* tours that differ in the add-ons
AddonTours ==
    {Tour(0, ExampleTiers, Num(14900), 0, taddons,
          Schedule(Departure("d1", null, null, null, null, daddons))) :
        taddons \in {<<>>, TourAddons},
        daddons \in {null, Some(<<>>), Some(DepartureAddons)}}

\* the ids of the add-on cards the user can have clicked: the tour's add-ons
\* are shown before a date is picked, the departure's after
clickableAddonIds(t, date) ==
    LET shown(q) == {q[i].id : i \in 1..Len(q)}
    IN shown(t.addons) \cup shown(getAvailableAddons(t, getSelectedDeparture(t, date)))

BaseTour == Tour(0, ExampleTiers, Num(14900), 0, TourAddons,
                 Schedule(Departure("d1", null, null, null, null, null)))

(***************************************************************************)
(* SpecRooms: the RoomConfiguration component on its own                   *)
(***************************************************************************)
InitRooms ==
    /\ pc = "rooms"
    /\ totalPax \in 0..MaxPax
    \* useState(() => generateRoomConfigurations(totalPax)), then the effect
    /\ configurations = generateRoomConfigurations(totalPax)
    /\ selectedRoomConfig = null
    /\ tour = BaseTour
    /\ selectedDate = "d1"
    /\ adults = 2
    /\ childrenWithBed = 0
    /\ childrenWithoutBed = 0
    /\ selectedAddons = <<>>
    /\ pricePerPerson = 0 /\ basePrice = 0 /\ childrenPrice = 0
    /\ roomPrice = 0 /\ addonsPrice = 0 /\ totalPrice = 0
    /\ InitBookingVars
    /\ testMode = FALSE /\ InitPayVars

\* useEffect(..., [totalPax, onSelectRoom]): the parent passes another totalPax
RoomTotalPaxChange(p) ==
    /\ pc = "rooms"
    /\ p # totalPax
    /\ totalPax' = p
    /\ configurations' = generateRoomConfigurations(p)
    /\ selectedRoomConfig' = null
    /\ UNCHANGED <<formVars, renderVars, bookingVars, pc, payVars>>

\* onClick={() => onSelectRoom(config)} of the i-th card
RoomCardClick(i) ==
    /\ pc = "rooms"
    /\ i \in 1..Len(configurations)
    /\ selectedRoomConfig' = Some(configurations[i])
    /\ UNCHANGED <<roomVars, formVars, renderVars, bookingVars, pc, payVars>>

NextRooms ==
    \/ \E p \in 0..MaxPax : RoomTotalPaxChange(p)
    \/ \E i \in 1..Len(configurations) : RoomCardClick(i)

SpecRooms == InitRooms /\ [][NextRooms]_vars

(***************************************************************************)
(* SpecPrice: the price computation of TourDetail applied to the inputs a  *)
(* booking form can hold                                                   *)
(***************************************************************************)
\* One render of TourDetail: the consts of lines 42-80 from the state.
RenderKeepsAddonsPrice ==
    LET dep == getSelectedDeparture(tour', selectedDate')
    IN /\ pricePerPerson' = getPriceForPax(tour', dep, adults')
       /\ basePrice' = computeBasePrice(adults', pricePerPerson')
       /\ childrenPrice' = computeChildrenPrice(tour', dep, childrenWithBed',
                                                childrenWithoutBed')
       /\ roomPrice' = computeRoomPrice(selectedRoomConfig')
       /\ addonsPrice' = IF selectedAddons' = selectedAddons THEN addonsPrice
                         ELSE computeAddonsPrice(tour', dep, selectedAddons')
       /\ totalPrice' = computeTotalPrice(basePrice', childrenPrice', roomPrice',
                                          addonsPrice')

Render ==
    LET dep == getSelectedDeparture(tour', selectedDate')
    IN /\ pricePerPerson' = getPriceForPax(tour', dep, adults')
       /\ basePrice' = computeBasePrice(adults', pricePerPerson')
       /\ childrenPrice' = computeChildrenPrice(tour', dep, childrenWithBed',
                                                childrenWithoutBed')
       /\ roomPrice' = computeRoomPrice(selectedRoomConfig')
       /\ addonsPrice' = computeAddonsPrice(tour', dep, selectedAddons')
       /\ totalPrice' = computeTotalPrice(basePrice', childrenPrice', roomPrice',
                                          addonsPrice')

\* The passenger and room sections are rendered once a date is selected;
\* before that the form holds the useState defaults.
InitPriceForm ==
    /\ pc = "inputs"
    /\ selectedDate \in {"", "d1"}
    /\ selectedDate = "" =>
          /\ adults = 2 /\ childrenWithBed = 0 /\ childrenWithoutBed = 0
          /\ selectedRoomConfig = null
    /\ totalPax = adults + childrenWithBed
    /\ configurations = IF selectedDate = "" THEN <<>>
                        ELSE generateRoomConfigurations(totalPax)
    /\ pricePerPerson = 0 /\ basePrice = 0 /\ childrenPrice = 0
    /\ roomPrice = 0 /\ addonsPrice = 0 /\ totalPrice = 0
    /\ InitBookingVars
    /\ testMode = FALSE /\ InitPayVars

InitPriceRates ==
    /\ tour \in RateTours
    /\ adults \in 1..PriceMaxAdults
    /\ childrenWithBed = 0
    /\ childrenWithoutBed = 0
    /\ selectedRoomConfig = null
    /\ selectedAddons = <<>>

InitPriceChildren ==
    /\ tour \in ChildTours
    /\ adults = 2
    /\ childrenWithBed \in 0..MaxChildren
    /\ childrenWithoutBed \in 0..MaxChildren
    /\ selectedRoomConfig = null
    /\ selectedAddons = <<>>

InitPriceAddons ==
    /\ tour \in AddonTours
    /\ adults \in 1..PriceMaxAdults
    /\ childrenWithBed \in 0..MaxChildren
    /\ childrenWithoutBed = 0
    /\ selectedRoomConfig \in
          {null} \cup {Some(c) : c \in
              {generateRoomConfigurations(adults + childrenWithBed)[i] :
                  i \in 1..Len(generateRoomConfigurations(adults + childrenWithBed))}}
    /\ selectedAddons \in
          {q \in SeqsUpTo({"a1", "a2", "a3"}, MaxAddons) : NoDuplicates(q)}

InitPrice ==
    /\ \/ InitPriceRates
       \/ InitPriceChildren
       \/ InitPriceAddons
    /\ InitPriceForm
    /\ \A i \in 1..Len(selectedAddons) :
          selectedAddons[i] \in clickableAddonIds(tour, selectedDate)

RenderPrice ==
    /\ pc = "inputs"
    /\ pc' = "rendered"
    /\ UNCHANGED <<roomVars, formVars, selectedRoomConfig, bookingVars>>
    /\ UNCHANGED payVars
    /\ Render

NextPrice == RenderPrice

SpecPrice == InitPrice /\ [][NextPrice]_vars

(***************************************************************************)
(* Spec: the selection part of the TourDetail form together with the       *)
(* RoomConfiguration component it mounts.  Every handler is followed by    *)
(* the re-render of the component, which recomputes the price consts.      *)
(* The month and year pickers only filter which of tour.availableDates are *)
(* listed; every date can be brought into view, so they are not modelled.  *)
(***************************************************************************)
FormMaxChildren == 1   \* cap of the two children counters, which the code
                       \* leaves unbounded

MIN_ADULTS == 1
MAX_ADULTS == 10

FormTourAddons == <<[id |-> "a1", price |-> Num(1000)]>>
FormDepartureAddons == <<[id |-> "a1", price |-> Num(300)],
                         [id |-> "a2", price |-> Num(50)]>>

\* A tour whose departure d1 overrides every tour-level default, whose date
\* d2 has no departure record and whose departure d3 is sold out.
FormTour ==
    [Tour(Num(15000), ExampleTiers, Num(14900), Num(5000), FormTourAddons,
          Some([departures |-> <<
              Departure("d1", Some(Num(12000)),
                        Some(<<[pax |-> 2, pricePerPerson |-> Num(20000)],
                               [pax |-> 4, pricePerPerson |-> Num(18000)]>>),
                        Some(Num(7000)), null, Some(FormDepartureAddons)),
              [Departure("d3", null, null, null, null, null)
                  EXCEPT !.status = "sold_out"]>>]))
     EXCEPT !.availableDates = <<"d1", "d2", "d3">>]

\* departure?.status || 'available'
dateStatus(t, dateStr) ==
    LET departure == getSelectedDeparture(t, dateStr)
    IN IF departure = null THEN "available" ELSE departure[1].status

\* disabled={status === 'sold_out'}
dateButtonAlwaysEnabled(t, dateStr) == FALSE

dateButtonDisabled(t, dateStr) == dateStatus(t, dateStr) = "sold_out"

\* the dates with an enabled "select" button
selectableDates(t) ==
    {t.availableDates[i] : i \in 1..Len(t.availableDates)}
        \ {d \in {t.availableDates[i] : i \in 1..Len(t.availableDates)} :
              dateButtonDisabled(t, d)}

\* handlePassengerChange: setSelectedRoomConfig(null)
handlePassengerChangeKeepsRoom(room) == room

handlePassengerChange(room) == null

\* generateRoomConfigurations for every party size the form can reach,
\* computed once
generatedFor ==
    [pax \in 0..(MAX_ADULTS + FormMaxChildren) |-> generateRoomConfigurations(pax)]

\* RoomConfiguration is rendered when selectedDate && adults > 0
roomSectionMounted(date, a) == date # "" /\ a > 0

\* The effect of RoomConfiguration, which runs on mount and whenever totalPax
\* changes: setConfigurations(generateRoomConfigurations(totalPax)) and
\* onSelectRoom(null).  room is the selection the handler left.
RoomEffect(room) ==
    LET wasMounted == roomSectionMounted(selectedDate, adults)
        isMounted == roomSectionMounted(selectedDate', adults')
        newPax == adults' + childrenWithBed'
        fires == isMounted /\ (~wasMounted \/ newPax # totalPax)
    IN /\ totalPax' = IF isMounted THEN newPax ELSE totalPax
       /\ configurations' = IF fires THEN generatedFor[newPax]
                            ELSE configurations
       /\ selectedRoomConfig' = IF fires THEN null ELSE room

InitForm ==
    /\ pc = "form"
    /\ tour = FormTour
    /\ selectedDate = ""
    /\ adults = 2 /\ childrenWithBed = 0 /\ childrenWithoutBed = 0
    /\ selectedRoomConfig = null
    /\ selectedAddons = <<>>
    /\ totalPax = adults + childrenWithBed
    /\ configurations = <<>>
    /\ InitBookingVars
    /\ testMode = FALSE /\ InitPayVars
    /\ pricePerPerson = getPriceForPax(tour, null, adults)
    /\ basePrice = computeBasePrice(adults, pricePerPerson)
    /\ childrenPrice = computeChildrenPrice(tour, null, 0, 0)
    /\ roomPrice = computeRoomPrice(null)
    /\ addonsPrice = computeAddonsPrice(tour, null, <<>>)
    /\ totalPrice = computeTotalPrice(basePrice, childrenPrice, roomPrice,
                                      addonsPrice)

\* onClick={() => setSelectedDate(dateStr)}
SetSelectedDate(dateStr) ==
    /\ pc = "form"
    /\ dateStr \in selectableDates(tour)
    /\ selectedDate' = dateStr
    /\ UNCHANGED <<tour, adults, childrenWithBed, childrenWithoutBed,
                   selectedAddons>>
    /\ RoomEffect(selectedRoomConfig)
    /\ lastStep' = ""
    /\ UNCHANGED <<customerName, customerEmail, customerPhone, error,
                   isProcessing, pendingBooking, pc>>
    /\ UNCHANGED payVars
    /\ Render

\* A passenger button: the setter of its counter, then handlePassengerChange.
PassengerChange(a, cwb, cwob) ==
    /\ pc = "form"
    /\ selectedDate # ""
    /\ adults' = a /\ childrenWithBed' = cwb /\ childrenWithoutBed' = cwob
    /\ UNCHANGED <<tour, selectedDate, selectedAddons>>
    /\ RoomEffect(handlePassengerChange(selectedRoomConfig))
    /\ lastStep' = IF selectedRoomConfig # null /\ selectedRoomConfig' = null
                   THEN "roomCleared" ELSE ""
    /\ UNCHANGED <<customerName, customerEmail, customerPhone, error,
                   isProcessing, pendingBooking, pc>>
    /\ UNCHANGED payVars
    /\ Render

\* setAdults(Math.max(1, adults - 1)), disabled={adults <= 1}
AdultsMinusUnclamped ==
    PassengerChange(adults - 1, childrenWithBed, childrenWithoutBed)

AdultsMinus ==
    /\ ~(adults <= MIN_ADULTS)
    /\ PassengerChange(IF adults - 1 > MIN_ADULTS THEN adults - 1 ELSE MIN_ADULTS,
                       childrenWithBed, childrenWithoutBed)

\* setAdults(Math.min(10, adults + 1)), disabled={adults >= 10}
AdultsPlus(cap) ==
    /\ ~(adults >= MAX_ADULTS)
    /\ adults < cap
    /\ PassengerChange(IF adults + 1 < MAX_ADULTS THEN adults + 1 ELSE MAX_ADULTS,
                       childrenWithBed, childrenWithoutBed)

\* setChildrenWithBed(Math.max(0, childrenWithBed - 1))
ChildrenWithBedMinus ==
    /\ ~(childrenWithBed <= 0)
    /\ PassengerChange(adults,
                       IF childrenWithBed - 1 > 0 THEN childrenWithBed - 1 ELSE 0,
                       childrenWithoutBed)

\* setChildrenWithBed(childrenWithBed + 1)
ChildrenWithBedPlus ==
    /\ childrenWithBed < FormMaxChildren
    /\ PassengerChange(adults, childrenWithBed + 1, childrenWithoutBed)

\* setChildrenWithoutBed(Math.max(0, childrenWithoutBed - 1))
ChildrenWithoutBedMinus ==
    /\ ~(childrenWithoutBed <= 0)
    /\ PassengerChange(adults, childrenWithBed,
                       IF childrenWithoutBed - 1 > 0 THEN childrenWithoutBed - 1
                       ELSE 0)

\* setChildrenWithoutBed(childrenWithoutBed + 1)
ChildrenWithoutBedPlus ==
    /\ childrenWithoutBed < FormMaxChildren
    /\ PassengerChange(adults, childrenWithBed, childrenWithoutBed + 1)

\* A configuration card of the mounted RoomConfiguration:
\* onClick={() => onSelectRoom(config)}, onSelectRoom = setSelectedRoomConfig
OnSelectRoom(i) ==
    /\ pc = "form"
    /\ roomSectionMounted(selectedDate, adults)
    /\ i \in 1..Len(configurations)
    /\ selectedRoomConfig' = Some(configurations[i])
    /\ lastStep' = ""
    /\ UNCHANGED <<roomVars, formVars>>
    /\ UNCHANGED <<customerName, customerEmail, customerPhone, error,
                   isProcessing, pendingBooking, pc>>
    /\ UNCHANGED payVars
    /\ Render

\* prev.includes(addonId) ? prev.filter(id => id !== addonId) : [...prev, addonId]
toggle(prev, addonId) ==
    IF \E i \in 1..Len(prev) : prev[i] = addonId
    THEN SelectSeq(prev, LAMBDA id : id # addonId)
    ELSE Append(prev, addonId)

\* An add-on card; the cards are those of the current availableAddons.
HandleAddonToggle(addonId) ==
    /\ pc = "form"
    /\ LET availableAddons ==
               getAvailableAddons(tour, getSelectedDeparture(tour, selectedDate))
       IN \E i \in 1..Len(availableAddons) : availableAddons[i].id = addonId
    /\ selectedAddons' = toggle(selectedAddons, addonId)
    /\ lastStep' = ""
    /\ UNCHANGED <<roomVars, tour, selectedDate, adults, childrenWithBed,
                   childrenWithoutBed, selectedRoomConfig>>
    /\ UNCHANGED <<customerName, customerEmail, customerPhone, error,
                   isProcessing, pendingBooking, pc>>
    /\ UNCHANGED payVars
    /\ Render

AddonIds == {"a1", "a2"}
FormDates == {"d1", "d2", "d3", "d4"}

Next ==
    \/ \E dateStr \in FormDates : SetSelectedDate(dateStr)
    \/ AdultsMinus
    \/ AdultsPlus(MAX_ADULTS)
    \/ ChildrenWithBedMinus
    \/ ChildrenWithBedPlus
    \/ ChildrenWithoutBedMinus
    \/ ChildrenWithoutBedPlus
    \/ \E i \in 1..Len(configurations) : OnSelectRoom(i)
    \/ \E addonId \in AddonIds : HandleAddonToggle(addonId)

Spec == InitForm /\ [][Next]_vars

(***************************************************************************)
(* SpecBooking: the whole TourDetail form, with the contact fields and the *)
(* submit button.  onBookingComplete is the parent's handler; here it is a *)
(* promise that resolves or rejects some time after it was called, while   *)
(* the inputs of the form stay editable.                                   *)
(***************************************************************************)
BookMaxAdults == 3   \* largest adults count tried in SpecBooking

\* A tour as the backend can return it: d1 can be booked, d3 is listed but
\* sold out, d4 has a departure but is not among the available dates.
BookingTour ==
    [Tour(Num(15000), ExampleTiers, Num(14900), Num(5000), FormTourAddons,
          Some([departures |-> <<
              Departure("d1", null, null, null, null, null),
              [Departure("d3", null, null, null, null, null)
                  EXCEPT !.status = "sold_out"],
              Departure("d4", null, null, null, null, null)>>]))
     EXCEPT !.availableDates = <<"d1", "d3">>, !.maxTravelers = 4]

\* const totalTravelers = adults + childrenWithBed + childrenWithoutBed
totalTravelersWithBed(a, cwb, cwob) == a + cwb

totalTravelers(a, cwb, cwob) == a + cwb + cwob

\* !selectedRoomConfig && adults > 0
roomMissingNever(room, a) == FALSE

roomMissing(room, a) == room = null /\ a > 0

\* !customerName || !customerEmail || !customerPhone
contactMissingAll(name, email, phone) == name = "" /\ email = "" /\ phone = ""

contactMissing(name, email, phone) == name = "" \/ email = "" \/ phone = ""

\* The message of the first validation of handleBooking that fails, "" when
\* none does.  The two traveler messages carry tour.minTravelers and
\* tour.maxTravelers, which are fixed for a tour.
validationMessage ==
    LET total == totalTravelers(adults, childrenWithBed, childrenWithoutBed)
    IN IF selectedDate = "" THEN "Please select a departure date"
       ELSE IF roomMissing(selectedRoomConfig, adults)
            THEN "Please select a room configuration"
       ELSE IF total < tour.minTravelers THEN "Minimum travelers required"
       ELSE IF total > tour.maxTravelers THEN "Maximum travelers allowed"
       ELSE IF contactMissing(customerName, customerEmail, customerPhone)
            THEN "Please fill in all contact details"
       ELSE ""

\* every failed validation is followed by return
returnsOnlyWithoutDate(errMessage) == errMessage = "Please select a departure date"

returns(errMessage) == errMessage # ""

InitBooking ==
    /\ pc = "form"
    /\ tour = BookingTour
    /\ selectedDate = ""
    /\ adults = 2 /\ childrenWithBed = 0 /\ childrenWithoutBed = 0
    /\ selectedRoomConfig = null
    /\ selectedAddons = <<>>
    /\ totalPax = adults + childrenWithBed
    /\ configurations = <<>>
    /\ InitBookingVars
    /\ testMode = FALSE /\ InitPayVars
    /\ pricePerPerson = getPriceForPax(tour, null, adults)
    /\ basePrice = computeBasePrice(adults, pricePerPerson)
    /\ childrenPrice = computeChildrenPrice(tour, null, 0, 0)
    /\ roomPrice = computeRoomPrice(null)
    /\ addonsPrice = computeAddonsPrice(tour, null, <<>>)
    /\ totalPrice = computeTotalPrice(basePrice, childrenPrice, roomPrice,
                                      addonsPrice)

\* onChange={(e) => setCustomerName(e.target.value)} and the two like it
SetCustomer(name, email, phone) ==
    /\ pc = "form"
    /\ customerName' = name /\ customerEmail' = email /\ customerPhone' = phone
    /\ lastStep' = ""
    /\ UNCHANGED <<roomVars, formVars, selectedRoomConfig, error, isProcessing,
                   pendingBooking, pc>>
    /\ UNCHANGED payVars
    /\ Render

SetCustomerName(value) == SetCustomer(value, customerEmail, customerPhone)
SetCustomerEmail(value) == SetCustomer(customerName, value, customerPhone)
SetCustomerPhone(value) == SetCustomer(customerName, customerEmail, value)

\* The submit button (disabled={isProcessing}): setError(''), the validations
\* in order, then setIsProcessing(true) and the call of onBookingComplete.
HandleBooking ==
    /\ pc = "form"
    /\ ~isProcessing
    /\ error' = validationMessage
    /\ IF returns(validationMessage)
       THEN /\ UNCHANGED <<isProcessing, pendingBooking>>
            /\ lastStep' = "rejected"
       ELSE /\ isProcessing' = TRUE
            /\ pendingBooking' = TRUE
            /\ lastStep' = "accepted"
    /\ UNCHANGED <<roomVars, formVars, selectedRoomConfig, customerName,
                   customerEmail, customerPhone, pc>>
    /\ UNCHANGED payVars
    /\ Render

\* await onBookingComplete(bookingData) returns: finally setIsProcessing(false)
BookingCompleteResolves ==
    /\ pc = "form"
    /\ pendingBooking
    /\ pendingBooking' = FALSE
    /\ isProcessing' = FALSE
    /\ lastStep' = ""
    /\ UNCHANGED <<roomVars, formVars, selectedRoomConfig, customerName,
                   customerEmail, customerPhone, error, pc>>
    /\ UNCHANGED payVars
    /\ Render

\* await onBookingComplete(bookingData) throws err:
\* setError(err.message || 'Failed to initiate payment. Please try again.'),
\* finally setIsProcessing(false)
BookingCompleteThrows(errMessage) ==
    /\ pc = "form"
    /\ pendingBooking
    /\ error' = IF errMessage # "" THEN errMessage
                ELSE "Failed to initiate payment. Please try again."
    /\ pendingBooking' = FALSE
    /\ isProcessing' = FALSE
    /\ lastStep' = ""
    /\ UNCHANGED <<roomVars, formVars, selectedRoomConfig, customerName,
                   customerEmail, customerPhone, pc>>
    /\ UNCHANGED payVars
    /\ Render

TypedValues == {"", "x"}
ErrorMessages == {"", "Failed to create payment order"}

NextBooking ==
    \/ \E dateStr \in FormDates : SetSelectedDate(dateStr)
    \/ AdultsMinus
    \/ AdultsPlus(BookMaxAdults)
    \/ ChildrenWithBedMinus
    \/ ChildrenWithBedPlus
    \/ ChildrenWithoutBedMinus
    \/ ChildrenWithoutBedPlus
    \/ \E i \in 1..Len(configurations) : OnSelectRoom(i)
    \/ \E addonId \in AddonIds : HandleAddonToggle(addonId)
    \/ \E value \in TypedValues : SetCustomerName(value)
    \/ \E value \in TypedValues : SetCustomerEmail(value)
    \/ \E value \in TypedValues : SetCustomerPhone(value)
    \/ HandleBooking
    \/ BookingCompleteResolves
    \/ \E errMessage \in ErrorMessages : BookingCompleteThrows(errMessage)

SpecBooking == InitBooking /\ [][NextBooking]_vars

(***************************************************************************)
(* SpecPayment: one submission of the form followed through               *)
(* BookingWidget.handleBooking, the Razorpay dialog or the HDFC gateway,   *)
(* and the PaymentResponse page the gateway returns to.  The backend and   *)
(* the gateways are the environment: every call to them may succeed,       *)
(* answer success = false, or fail.                                        *)
(***************************************************************************)
MaxLoads == 2   \* how often the payment-response page is loaded at most

\* selectedRoomConfig?.priceDifference || 0
payloadRoomPrice(room) ==
    IF room # null /\ room[1].priceDifference # 0
    THEN Num(room[1].priceDifference) ELSE 0

\* The bookingData handleBooking passes to onBookingComplete.  handleBooking
\* changes none of these fields, so in the state it leaves they are what was
\* submitted.  A roomConfiguration of <<>> stands for {}.
bookingData ==
    [customerName |-> customerName, customerEmail |-> customerEmail,
     customerPhone |-> customerPhone, departureDate |-> selectedDate,
     adults |-> adults, childrenWithBed |-> childrenWithBed,
     childrenWithoutBed |-> childrenWithoutBed,
     roomConfiguration |-> selectedRoomConfig, addons |-> selectedAddons,
     basePrice |-> basePrice, childrenPrice |-> childrenPrice,
     roomPrice |-> payloadRoomPrice(selectedRoomConfig),
     addonsPrice |-> addonsPrice, totalPrice |-> totalPrice]

CallOutcomes == {"success", "failure", "error"}
OrderOutcomes == {"hdfc", "razorpay", "failure", "error"}

\* bookingsAPI.create: the response of the backend, or, when the request
\* fails, a made-up response with success: true and a booking built from the
\* request
bookingsAPIcreate(outcome) ==
    [success |-> outcome # "failure",
     booking |-> IF outcome = "success" THEN "backend"
                 ELSE IF outcome = "error" THEN "simulated" ELSE ""]

\* paymentsAPI.createOrder: the response of the backend, or, when the request
\* fails, a made-up response with success: true and an order, which names no
\* paymentMode, paymentLink or redirectUrl
paymentsAPIcreateOrder(outcome) ==
    [success |-> outcome # "failure",
     paymentMode |-> IF outcome = "hdfc" THEN "HDFC"
                     ELSE IF outcome = "razorpay" THEN "RAZORPAY" ELSE "",
     paymentLink |-> outcome = "hdfc"]

\* paymentsAPI.verify: the response of the backend, or, when the request
\* fails, a made-up response with success: true
paymentsAPIverify(outcome) == [success |-> outcome # "failure"]

FAILED_TO_INITIATE == "Failed to initiate payment. Please try again."

TourDetailUnchanged ==
    UNCHANGED <<roomVars, formVars, selectedRoomConfig, renderVars, bookingVars,
                pc>>

\* forms as the user can have filled them in on FormTour before pressing
\* the submit button
InitPayment ==
    /\ pc = "form"
    /\ tour = FormTour
    /\ selectedDate \in {"d1", "d2"}
    /\ adults \in {2, 3}
    /\ childrenWithBed \in {0, 1}
    /\ childrenWithoutBed = 0
    /\ totalPax = adults + childrenWithBed
    /\ configurations = generatedFor[totalPax]
    /\ selectedRoomConfig \in {Some(configurations[1]),
                               Some(configurations[Len(configurations)])}
    /\ selectedAddons \in {<<>>, <<"a2">>, <<"a2", "a1">>}
    /\ customerName \in {"", "x"}
    /\ customerEmail = "x" /\ customerPhone = "x"
    /\ error = "" /\ isProcessing = FALSE /\ pendingBooking = FALSE
    /\ lastStep = ""
    /\ LET dep == getSelectedDeparture(tour, selectedDate)
       IN /\ pricePerPerson = getPriceForPax(tour, dep, adults)
          /\ basePrice = computeBasePrice(adults, pricePerPerson)
          /\ childrenPrice = computeChildrenPrice(tour, dep, childrenWithBed,
                                                  childrenWithoutBed)
          /\ roomPrice = computeRoomPrice(selectedRoomConfig)
          /\ addonsPrice = computeAddonsPrice(tour, dep, selectedAddons)
          /\ totalPrice = computeTotalPrice(basePrice, childrenPrice,
                                            roomPrice, addonsPrice)
    /\ testMode \in BOOLEAN
    /\ InitPayVars

\* the submit button, followed here for one submission
SubmitOnce ==
    /\ submitted = null
    /\ HandleBooking

\* amount: bookingData.totalPrice
orderAmountOfBase(data) == data.basePrice

orderAmountOf(data) == data.totalPrice

\* await onBookingComplete(bookingData): BookingWidget.handleBooking runs up
\* to its first await, which is bookingsAPI.create in test mode and
\* paymentsAPI.createOrder otherwise
OnBookingComplete ==
    /\ pendingBooking /\ widget = "idle" /\ submitted = null
    /\ submitted' = Some(bookingData)
    /\ IF testMode
       THEN /\ widget' = "testCreate"
            /\ requests' = requests + 1
            /\ UNCHANGED orderAmount
       ELSE /\ widget' = "createOrder"
            /\ orderAmount' = Some(orderAmountOf(bookingData))
            /\ UNCHANGED requests
    /\ UNCHANGED <<testMode, result, draft, confirmedBooking, alerted, route,
                 locationState, hasOrderId, status, message, run, loads,
                 paid, verified, inflight, created, createFailed>>
    /\ TourDetailUnchanged

\* test mode: bookingsAPI.create returned
TestCreateReturns(outcome) ==
    /\ widget = "testCreate"
    /\ widget' = "end"
    /\ created' = IF outcome = "success" THEN created + 1 ELSE created
    /\ LET bookingResponse == bookingsAPIcreate(outcome)
       IN IF bookingResponse.success
          THEN /\ confirmedBooking' = Some(bookingResponse.booking)
               /\ result' = "confirmed"
          ELSE /\ result' = "thrown"
               /\ UNCHANGED confirmedBooking
    /\ UNCHANGED <<testMode, submitted, orderAmount, draft, alerted, route,
                 locationState, hasOrderId, status, message, run, loads,
                 paid, verified, requests, inflight, createFailed>>
    /\ TourDetailUnchanged

\* live mode: paymentsAPI.createOrder returned; razorpayLoaded says whether
\* checkout.js has defined window.Razorpay
CreateOrderReturns(outcome, razorpayLoaded) ==
    /\ widget = "createOrder"
    /\ LET orderResponse == paymentsAPIcreateOrder(outcome)
       IN IF ~orderResponse.success
          THEN /\ result' = "thrown" /\ widget' = "end"
               /\ UNCHANGED <<draft, route>>
          ELSE IF orderResponse.paymentMode = "HDFC" /\ orderResponse.paymentLink
          THEN /\ draft' = Some([bookingData |-> submitted[1],
                                 orderId |-> "order", paymentMode |-> "HDFC"])
               /\ route' = "gateway"
               /\ result' = "handoffHDFC" /\ widget' = "end"
          ELSE IF orderResponse.paymentMode = "RAZORPAY"
          THEN /\ IF razorpayLoaded
                  THEN result' = "handoffRazorpay" /\ widget' = "dialog"
                  ELSE result' = "thrown" /\ widget' = "end"
               /\ UNCHANGED <<draft, route>>
          ELSE /\ result' = "returned" /\ widget' = "end"
               /\ UNCHANGED <<draft, route>>
    /\ UNCHANGED <<testMode, submitted, orderAmount, confirmedBooking,
                 alerted, locationState, hasOrderId, status, message, run,
                 loads, paid, verified, requests, inflight, created,
                 createFailed>>
    /\ TourDetailUnchanged

\* the promise of onBookingComplete is fulfilled: TourDetail runs finally
WidgetReturns ==
    /\ result \in {"confirmed", "handoffHDFC", "handoffRazorpay", "returned"}
    /\ BookingCompleteResolves

\* the promise is rejected with the Error thrown at line 253
WidgetThrows ==
    /\ result = "thrown"
    /\ BookingCompleteThrows(FAILED_TO_INITIATE)

\* modal.ondismiss: the user closed the dialog without paying
RazorpayDismissed ==
    /\ widget = "dialog"
    /\ widget' = "end"
    /\ UNCHANGED <<testMode, submitted, result, orderAmount, draft,
                 confirmedBooking, alerted, route, locationState,
                 hasOrderId, status, message, run, loads, paid, verified,
                 requests, inflight, created, createFailed>>
    /\ TourDetailUnchanged

\* the user paid in the dialog: Razorpay calls handler, which awaits
\* paymentsAPI.verify
RazorpayHandler ==
    /\ widget = "dialog"
    /\ paid' = TRUE
    /\ widget' = "verify"
    /\ UNCHANGED <<testMode, submitted, result, orderAmount, draft,
                 confirmedBooking, alerted, route, locationState,
                 hasOrderId, status, message, run, loads, verified,
                 requests, inflight, created, createFailed>>
    /\ TourDetailUnchanged

\* handler: paymentsAPI.verify returned
HandlerVerifyReturns(outcome) ==
    /\ widget = "verify"
    /\ verified' = (verified \/ outcome = "success")
    /\ IF paymentsAPIverify(outcome).success
       THEN /\ widget' = "create"
            /\ requests' = requests + 1
            /\ UNCHANGED alerted
       ELSE /\ alerted' = TRUE
            /\ widget' = "end"
            /\ UNCHANGED requests
    /\ UNCHANGED <<testMode, submitted, result, orderAmount, draft,
                 confirmedBooking, route, locationState, hasOrderId,
                 status, message, run, loads, paid, inflight, created,
                 createFailed>>
    /\ TourDetailUnchanged

\* handler: bookingsAPI.create returned
HandlerCreateReturns(outcome) ==
    /\ widget = "create"
    /\ widget' = "end"
    /\ created' = IF outcome = "success" THEN created + 1 ELSE created
    /\ createFailed' = (outcome # "success")
    /\ IF bookingsAPIcreate(outcome).success
       THEN /\ confirmedBooking' = Some(bookingsAPIcreate(outcome).booking)
            /\ UNCHANGED alerted
       ELSE /\ alerted' = TRUE
            /\ UNCHANGED confirmedBooking
    /\ UNCHANGED <<testMode, submitted, result, orderAmount, draft, route,
                 locationState, hasOrderId, status, message, run, loads,
                 paid, verified, requests, inflight>>
    /\ TourDetailUnchanged

MSG_PROCESSING == "Processing your payment..."
MSG_NO_ORDER == "Payment verification failed: No order ID found"
MSG_VERIFIED == "Payment verified! Creating your booking..."
MSG_NO_DRAFT ==
    "Booking data not found. Please contact support with Order ID: order"
MSG_BOOKING_FAILED ==
    "Payment successful but booking failed. Please contact support with Order ID: order"
MSG_CONFIRMED == "Booking confirmed! Redirecting..."
MSG_VERIFY_FAILED == "Payment verification failed"

\* the Routes of App
routeElement(path) ==
    IF path = "/book/t1" THEN "BookingPage"
    ELSE IF path = "/payment-response" THEN "PaymentResponse"
    ELSE "HomeMessage"

\* what the user sees
screen ==
    IF route = "gateway" THEN "gateway"
    ELSE IF routeElement(route) = "BookingPage"
         THEN IF confirmedBooking # null THEN "BookingConfirmation"
              ELSE "TourDetail"
    ELSE routeElement(route)

\* PaymentResponse mounts: the useState defaults, then the effect calls
\* verifyPayment, which runs up to its first await or return
MountPaymentResponse(orderId) ==
    IF orderId
    THEN status' = "loading" /\ message' = MSG_PROCESSING /\ run' = "verify"
    ELSE /\ status' = "failed" /\ message' = MSG_NO_ORDER
         /\ run' = "failedNoOrder"

\* the HDFC gateway sends the browser back to /payment-response, after a
\* payment or without one, with or without the order id in the URL
GatewayReturns(payment, orderId) ==
    /\ route = "gateway"
    /\ route' = "/payment-response"
    /\ paid' = payment
    /\ hasOrderId' = orderId
    /\ loads' = 1
    /\ MountPaymentResponse(orderId)
    /\ UNCHANGED <<testMode, submitted, widget, result, orderAmount, draft,
                 confirmedBooking, alerted, locationState, verified,
                 requests, inflight, created, createFailed>>
    /\ TourDetailUnchanged

\* the user reloads the payment-response page: the run of verifyPayment of
\* the old page is gone, a request it has sent may still reach the backend
Reload ==
    /\ route = "/payment-response"
    /\ loads < MaxLoads
    /\ loads' = loads + 1
    /\ inflight' = IF run = "create" THEN inflight + 1 ELSE inflight
    /\ createFailed' = FALSE
    /\ MountPaymentResponse(hasOrderId)
    /\ UNCHANGED <<testMode, submitted, widget, result, orderAmount, draft,
                 confirmedBooking, alerted, route, locationState,
                 hasOrderId, paid, verified, requests, created>>
    /\ TourDetailUnchanged

\* sessionStorage.getItem('pendingBooking') after a successful verification
draftFoundAlways(item) == TRUE

draftFound(item) == item # null

\* axios.post(.../payments/verify) returned or failed; the backend reports
\* success only for a payment the gateway took
VerifyReturns(outcome) ==
    /\ run = "verify"
    /\ outcome = "success" => paid
    /\ verified' = (verified \/ outcome = "success")
    /\ IF outcome = "success"
       THEN IF draftFound(draft)
            THEN /\ status' = "success" /\ message' = MSG_VERIFIED
                 /\ run' = "create"
                 /\ requests' = requests + 1
            ELSE /\ status' = "failed" /\ message' = MSG_NO_DRAFT
                 /\ run' = "failedNoDraft"
                 /\ UNCHANGED requests
       ELSE /\ status' = "failed" /\ message' = MSG_VERIFY_FAILED
            /\ run' = "failedVerify"
            /\ UNCHANGED requests
    /\ UNCHANGED <<testMode, submitted, widget, result, orderAmount, draft,
                 confirmedBooking, alerted, route, locationState,
                 hasOrderId, loads, paid, inflight, created, createFailed>>
    /\ TourDetailUnchanged

\* what is left of the draft after the booking request came back
draftAfterCreateAlwaysRemoved(item, success) == null

draftAfterCreate(item, success) == IF success THEN null ELSE item

\* status after the booking request came back
statusAfterCreateKept(current, success) == current

statusAfterCreate(current, success) == IF success THEN current ELSE "failed"

\* axios.post(.../bookings) returned or failed
CreateReturns(outcome) ==
    /\ run = "create"
    /\ created' = IF outcome = "success" THEN created + 1 ELSE created
    /\ createFailed' = (outcome # "success")
    /\ draft' = draftAfterCreate(draft, outcome = "success")
    /\ status' = statusAfterCreate(status, outcome = "success")
    /\ IF outcome = "success"
       THEN message' = MSG_CONFIRMED /\ run' = "timer"
       ELSE message' = MSG_BOOKING_FAILED /\ run' = "failedCreate"
    /\ UNCHANGED <<testMode, submitted, widget, result, orderAmount,
                 confirmedBooking, alerted, route, locationState,
                 hasOrderId, loads, paid, verified, requests, inflight>>
    /\ TourDetailUnchanged

\* the timer of 2000 ms fires: navigate('/', {state: {confirmedBooking,
\* fromPayment: true}}); the element of the new route mounts, and a
\* BookingWidget would take the booking from location.state
RedirectTimer ==
    /\ run = "timer"
    /\ run' = "navigated"
    /\ route' = "/"
    /\ locationState' = Some([confirmedBooking |-> "backend",
                              fromPayment |-> TRUE])
    /\ confirmedBooking' = IF routeElement(route') = "BookingPage"
                           THEN Some(locationState'[1].confirmedBooking)
                           ELSE confirmedBooking
    /\ UNCHANGED <<testMode, submitted, widget, result, orderAmount, draft,
                 alerted, hasOrderId, status, message, loads, paid,
                 verified, requests, inflight, created, createFailed>>
    /\ TourDetailUnchanged

\* the backend answers the booking request of a page that is gone
AbandonedCreate(outcome) ==
    /\ inflight > 0
    /\ inflight' = inflight - 1
    /\ created' = IF outcome = "success" THEN created + 1 ELSE created
    /\ UNCHANGED <<testMode, submitted, widget, result, orderAmount, draft,
                 confirmedBooking, alerted, route, locationState,
                 hasOrderId, status, message, run, loads, paid, verified,
                 requests, createFailed>>
    /\ TourDetailUnchanged

NextPayment ==
    \/ SubmitOnce
    \/ OnBookingComplete
    \/ \E outcome \in CallOutcomes : TestCreateReturns(outcome)
    \/ \E outcome \in OrderOutcomes, razorpayLoaded \in BOOLEAN :
          CreateOrderReturns(outcome, razorpayLoaded)
    \/ WidgetReturns
    \/ WidgetThrows
    \/ RazorpayDismissed
    \/ RazorpayHandler
    \/ \E outcome \in CallOutcomes : HandlerVerifyReturns(outcome)
    \/ \E outcome \in CallOutcomes : HandlerCreateReturns(outcome)
    \/ \E payment \in BOOLEAN, orderId \in BOOLEAN :
          GatewayReturns(payment, orderId)
    \/ Reload
    \/ \E outcome \in CallOutcomes : VerifyReturns(outcome)
    \/ \E outcome \in CallOutcomes : CreateReturns(outcome)
    \/ RedirectTimer
    \/ \E outcome \in CallOutcomes : AbandonedCreate(outcome)

SpecPayment == InitPayment /\ [][NextPayment]_vars

(***************************************************************************)
(* Properties of generateRoomConfigurations (checked under SpecRooms,      *)
(* where configurations is its result for totalPax)                        *)
(***************************************************************************)
Configs == {configurations[i] : i \in 1..Len(configurations)}

Beds(c) == c.single + 2 * c.double + 2 * c.twin

Rooms(c) == c.single + c.double + c.twin

Triple(c) == <<c.single, c.double, c.twin>>

\* C1: every configuration returned for partySize allocates exactly
\* partySize beds, single + 2*double + 2*twin = partySize, with non-negative
\* room counts.
C1_BedsEqualPartySize ==
    pc = "rooms" =>
        \A c \in Configs :
            /\ Beds(c) = totalPax
            /\ c.single \in Nat /\ c.double \in Nat /\ c.twin \in Nat

C1_Witness ==
    /\ pc = "rooms" /\ totalPax = 5
    /\ \E c \in Configs : c.single = 1 /\ c.double = 1 /\ c.twin = 1

\* C2: the result is exhaustive and duplicate-free: every non-negative triple
\* with single + 2*double + 2*twin = partySize appears exactly once, and no
\* two returned configurations have the same id.
C2_ExhaustiveNoDuplicates ==
    pc = "rooms" =>
        /\ \A s, d, t \in 0..totalPax :
              s + 2 * d + 2 * t = totalPax =>
                  Cardinality({i \in 1..Len(configurations) :
                                  Triple(configurations[i]) = <<s, d, t>>}) = 1
        /\ \A i, j \in 1..Len(configurations) :
              configurations[i].id = configurations[j].id => i = j

C2_Witness ==
    /\ pc = "rooms" /\ totalPax = 6
    /\ Len(configurations) = 10

\* C3: the returned sequence is sorted non-decreasing by priceDifference, so
\* its first element has the minimum priceDifference.
C3_SortedByPrice ==
    pc = "rooms" =>
        /\ \A i, j \in 1..Len(configurations) :
              i <= j => configurations[i].priceDifference
                            <= configurations[j].priceDifference
        /\ \A c \in Configs :
              configurations[1].priceDifference <= c.priceDifference

C3_Witness ==
    /\ pc = "rooms" /\ totalPax = 4
    /\ configurations[1].priceDifference
          < configurations[Len(configurations)].priceDifference

\* C4: priceDifference is 500 per room, (single + double + twin) * 500; it is
\* non-negative and equal for configurations with the same number of rooms.
C4_PricePerRoom ==
    pc = "rooms" =>
        /\ \A c \in Configs :
              c.priceDifference = Rooms(c) * 500 /\ c.priceDifference >= 0
        /\ \A c1, c2 \in Configs :
              Rooms(c1) = Rooms(c2) => c1.priceDifference = c2.priceDifference

C4_Witness ==
    /\ pc = "rooms"
    /\ \E c1, c2 \in Configs :
          /\ Triple(c1) # Triple(c2) /\ Rooms(c1) = Rooms(c2)
          /\ c1.priceDifference = 1500

\* C5: party size 0 yields exactly the one configuration of no rooms at
\* price 0; every party size >= 1 yields a non-empty result that contains
\* the all-singles configuration.
C5_TrivialAndAllSingles ==
    pc = "rooms" =>
        /\ totalPax = 0 =>
              /\ Len(configurations) = 1
              /\ Triple(configurations[1]) = <<0, 0, 0>>
              /\ configurations[1].priceDifference = 0
        /\ totalPax >= 1 =>
              /\ Len(configurations) >= 1
              /\ \E c \in Configs : Triple(c) = <<totalPax, 0, 0>>

C5_Witness ==
    /\ pc = "rooms" /\ totalPax = 0
    /\ Len(configurations) = 1

Has(s, d, t, price) ==
    \E c \in Configs : Triple(c) = <<s, d, t>> /\ c.priceDifference = price

\* C6 as stated: for party size 4 the result contains 4 singles at 2000,
\* 2 doubles at 1000 and 2 singles + 1 double at 1500, and 2 doubles is the
\* only configuration at the cheapest price 1000.
C6_UniqueCheapest ==
    (pc = "rooms" /\ totalPax = 4) =>
        /\ Has(4, 0, 0, 2000) /\ Has(0, 2, 0, 1000) /\ Has(2, 1, 0, 1500)
        /\ \A c \in Configs :
              c.priceDifference = 1000 => Triple(c) = <<0, 2, 0>>

\* C6 amended: for party size 4 the result contains 4 singles at 2000,
\* 2 doubles at 1000 and 2 singles + 1 double at 1500; the cheapest price is
\* 1000 and the configurations at that price are exactly the three two-room
\* ones: 2 doubles, 1 double + 1 twin, 2 twins.
C6_CheapestAreTwoRooms ==
    (pc = "rooms" /\ totalPax = 4) =>
        /\ Has(4, 0, 0, 2000) /\ Has(0, 2, 0, 1000) /\ Has(2, 1, 0, 1500)
        /\ \A c \in Configs : c.priceDifference >= 1000
        /\ {Triple(c) : c \in {x \in Configs : x.priceDifference = 1000}}
              = {<<0, 2, 0>>, <<0, 1, 1>>, <<0, 0, 2>>}

C6_Witness ==
    /\ pc = "rooms" /\ totalPax = 4
    /\ Has(0, 1, 1, 1000)

\* C7: the configurations marked recommended (priceDifference equal to the
\* minimum of the list) are exactly those with the fewest rooms,
\* ceil(partySize / 2), and their priceDifference is 500 * ceil(partySize / 2).
C7_RecommendedFewestRooms ==
    pc = "rooms" =>
        \A c \in Configs :
            /\ isRecommended(c, configurations)
                  <=> Rooms(c) = (totalPax + 1) \div 2
            /\ isRecommended(c, configurations)
                  => c.priceDifference = 500 * ((totalPax + 1) \div 2)

C7_Witness ==
    /\ pc = "rooms" /\ totalPax = 5
    /\ \E c1, c2, c3 \in Configs :
          /\ c1 # c2
          /\ isRecommended(c1, configurations)
          /\ isRecommended(c2, configurations)
          /\ ~isRecommended(c3, configurations)

(***************************************************************************)
(* Properties of the price computation (checked under SpecPrice)           *)
(***************************************************************************)
SelectedDeparture == getSelectedDeparture(tour, selectedDate)

\* the tiers of the selected departure when it carries a list, else the tour's
CurrentTiers ==
    IF SelectedDeparture # null /\ SelectedDeparture[1].pricingTiers # null
    THEN SelectedDeparture[1].pricingTiers[1]
    ELSE tour.pricingTiers

TierSet == {CurrentTiers[i] : i \in 1..Len(CurrentTiers)}

\* C8 as stated: with a non-empty tier list in any order, the resolved rate
\* is the rate of the tier whose pax equals adults if there is one, and
\* otherwise the rate of the tier with the largest pax in the list.
C8_ExactElseLargestPax ==
    (pc = "rendered" /\ CurrentTiers # <<>>) =>
        IF \E t \in TierSet : t.pax = adults
        THEN \E t \in TierSet : t.pax = adults /\ pricePerPerson = t.pricePerPerson
        ELSE \E t \in TierSet :
                /\ \A u \in TierSet : u.pax <= t.pax
                /\ pricePerPerson = t.pricePerPerson

NoTiersAtAll ==
    /\ tour.pricingTiers = <<>>
    /\ SelectedDeparture # null =>
          SelectedDeparture[1].pricingTiers \in {null, Some(<<>>)}

IsRounded(r, v) ==
    /\ r % Scale = 0
    /\ 2 * v - Scale < 2 * r
    /\ 2 * r <= 2 * v + Scale

\* C10: basePrice = round(adults * rate), childrenPrice = round(children with
\* bed * its rate + children without bed * its rate), roomPrice = the
\* selected configuration's priceDifference, 0 when none is selected; one
\* tier {2, 25000}, 2 adults, no children, a room at 500 and no add-ons give
\* 50000 + 0 + 500 + 0 = 50500, and one child with bed at 14900 gives 14900.
C10_BreakdownFormulas ==
    pc = "rendered" =>
        /\ IsRounded(basePrice, adults * pricePerPerson)
        /\ IsRounded(childrenPrice,
                     childrenWithBed
                        * getChildWithBedPrice(tour, SelectedDeparture)
                     + childrenWithoutBed
                        * getChildWithoutBedPrice(tour, SelectedDeparture))
        /\ roomPrice = IF selectedRoomConfig = null THEN 0
                       ELSE Num(selectedRoomConfig[1].priceDifference)
        /\ ( /\ CurrentTiers = <<[pax |-> 2, pricePerPerson |-> Num(25000)]>>
             /\ adults = 2 /\ childrenWithBed = 0 /\ childrenWithoutBed = 0
             /\ selectedRoomConfig # null
             /\ selectedRoomConfig[1].priceDifference = 500
             /\ selectedAddons = <<>> )
           => /\ basePrice = Num(50000) /\ childrenPrice = 0
              /\ roomPrice = Num(500) /\ addonsPrice = 0
              /\ totalPrice = Num(50500)
        /\ ( /\ childrenWithBed = 1 /\ childrenWithoutBed = 0
             /\ getChildWithBedPrice(tour, SelectedDeparture) = Num(14900) )
           => childrenPrice = Num(14900)

C10_Witness ==
    /\ pc = "rendered"
    /\ CurrentTiers = <<[pax |-> 2, pricePerPerson |-> Num(25000)]>>
    /\ adults = 2 /\ childrenWithBed = 0 /\ childrenWithoutBed = 0
    /\ selectedRoomConfig # null
    /\ Triple(selectedRoomConfig[1]) = <<0, 1, 0>>
    /\ selectedAddons = <<>>
    /\ basePrice = Num(50000) /\ roomPrice = Num(500)
    /\ totalPrice = Num(50500)

(***************************************************************************)
(* Properties of the TourDetail form (checked under Spec)                  *)
(***************************************************************************)
IsWholeAmount(x) == x >= 0 /\ x % Scale = 0

Selected(addonId) == \E i \in 1..Len(selectedAddons) : selectedAddons[i] = addonId

\* C11: in every state of the form the four components are non-negative
\* whole amounts, totalPrice is their sum, and each component is the value its
\* formula gives for the current date, passenger counts, room and add-ons.
C11_BreakdownFromCurrentInputs ==
    pc = "form" =>
        LET dep == SelectedDeparture
        IN /\ IsWholeAmount(basePrice) /\ IsWholeAmount(childrenPrice)
           /\ IsWholeAmount(roomPrice) /\ IsWholeAmount(addonsPrice)
           /\ totalPrice = basePrice + childrenPrice + roomPrice + addonsPrice
           /\ basePrice = adults * getPriceForPax(tour, dep, adults)
           /\ childrenPrice = childrenWithBed * getChildWithBedPrice(tour, dep)
                 + childrenWithoutBed * getChildWithoutBedPrice(tour, dep)
           /\ roomPrice = IF selectedRoomConfig = null THEN 0
                          ELSE Num(selectedRoomConfig[1].priceDifference)
           /\ addonsPrice = reduceAddons(getAvailableAddons(tour, dep),
                                         selectedAddons)

\* add-ons and a room were chosen on d1, then the date was changed to d2, so
\* every component differs from what it was when the choice was made
C11_Witness ==
    /\ pc = "form" /\ selectedDate = "d2"
    /\ Selected("a1") /\ Selected("a2")
    /\ selectedRoomConfig # null /\ childrenWithBed = 1
    /\ addonsPrice = Num(1000)
    /\ totalPrice = basePrice + childrenPrice + roomPrice + Num(1000)

AvailableAddons == getAvailableAddons(tour, SelectedDeparture)

\* the sum of price over the entries of available whose id is in ids
RECURSIVE SumOfEntriesIn(_, _)
SumOfEntriesIn(available, ids) ==
    IF available = <<>> THEN 0
    ELSE (IF Head(available).id \in ids THEN Head(available).price ELSE 0)
         + SumOfEntriesIn(Tail(available), ids)

\* C12: addonsPrice is the sum of price over the currently available add-ons
\* whose id is selected; a selected id that is not among the available add-ons
\* adds nothing (and the render still yields an amount).
C12_AddonsPriceSumsSelectedAvailable ==
    pc = "form" =>
        /\ addonsPrice = SumOfEntriesIn(AvailableAddons,
                                        {selectedAddons[i] : i \in 1..Len(selectedAddons)})
        /\ (\A i \in 1..Len(selectedAddons) :
               \A j \in 1..Len(AvailableAddons) :
                   AvailableAddons[j].id # selectedAddons[i]) => addonsPrice = 0

\* a2 was selected on d1 and is not offered on d2, a1 is: only a1 is charged
C12_Witness ==
    /\ pc = "form" /\ selectedDate = "d2"
    /\ selectedAddons = <<"a2", "a1">>
    /\ addonsPrice = Num(1000)

\* a2 alone is selected and not offered: nothing is charged
C12_WitnessUnknownOnly ==
    /\ pc = "form" /\ selectedDate = "d2"
    /\ selectedAddons = <<"a2">>
    /\ addonsPrice = 0

(***************************************************************************)
(* Departure overrides (checked under SpecPrice)                           *)
(***************************************************************************)
\* the breakdown computed with the departure's value v of a field when the
\* departure carries one (carries(field) decides that), else the tour's
OverrideHolds(carries(_)) ==
    LET dep == SelectedDeparture[1]
        cwbRate == IF carries(dep.childWithBed) THEN dep.childWithBed[1]
                   ELSE tour.childWithBed
        cwobRate == IF carries(dep.childWithoutBed) THEN dep.childWithoutBed[1]
                    ELSE tour.childWithoutBed
        tiers == IF dep.pricingTiers # null THEN dep.pricingTiers[1]
                 ELSE tour.pricingTiers
        offered == IF dep.addons # null THEN dep.addons[1] ELSE tour.addons
    IN /\ childrenPrice = MathRound(childrenWithBed * cwbRate
                                    + childrenWithoutBed * cwobRate)
       /\ addonsPrice = MathRound(reduceAddons(offered, selectedAddons))
       /\ dep.pricingTiers # null =>
             pricePerPerson =
                 getPriceForPax([tour EXCEPT !.pricingTiers = <<>>],
                                SelectedDeparture, adults)
       /\ tiers = <<>> /\ carries(dep.pricePerPerson) =>
             pricePerPerson = dep.pricePerPerson[1]

\* C13: when the selected departure carries its own pricingTiers,
\* childWithBed, childWithoutBed, addons or pricePerPerson (an empty tier list
\* and a rate of 0 included), the breakdown uses the departure's value; the
\* tour-level value is used only when the departure's field is absent.
C13_DepartureValueOverrides ==
    pc = "rendered" /\ SelectedDeparture # null =>
        OverrideHolds(LAMBDA field : field # null)

\* what the code does: a departure rate of 0 counts as absent
C13_NonZeroDepartureValueOverrides ==
    pc = "rendered" /\ SelectedDeparture # null =>
        OverrideHolds(LAMBDA field : truthy(field))

(***************************************************************************)
(* Room selection against passenger and date changes (checked under Spec)  *)
(***************************************************************************)
PassengersChanged ==
    \/ adults' # adults
    \/ childrenWithBed' # childrenWithBed
    \/ childrenWithoutBed' # childrenWithoutBed

\* C14: a step that changes adults, children with bed or children without bed
\* leaves no room configuration selected, and a configuration becomes selected
\* again only by a room pick, which changes neither the counts nor the date
\* and takes one of the configurations on display.
C14_PassengerChangeClearsRoom ==
    [][/\ PassengersChanged => selectedRoomConfig' = null
       /\ selectedRoomConfig = null /\ selectedRoomConfig' # null =>
             /\ ~PassengersChanged
             /\ selectedDate' = selectedDate
             /\ \E i \in 1..Len(configurations) :
                   selectedRoomConfig' = Some(configurations[i])]_vars

\* a children-without-bed button was pressed while a room was selected: the
\* party size is the same, the selection is gone
C14_Witness ==
    /\ pc = "form" /\ lastStep = "roomCleared"
    /\ selectedRoomConfig = null
    /\ childrenWithoutBed = 1 /\ adults = 4 /\ childrenWithBed = 0

\* C15: a step that changes the selected date leaves no room configuration
\* selected.
C15_DateChangeClearsRoom ==
    [][selectedDate' # selectedDate => selectedRoomConfig' = null]_vars

(***************************************************************************)
(* Accepted and rejected submissions (checked under SpecBooking)           *)
(***************************************************************************)
Accepted == pc = "form" /\ lastStep = "accepted"
Rejected == pc = "form" /\ lastStep = "rejected"

AvailableDateSet == {tour.availableDates[i] : i \in 1..Len(tour.availableDates)}

\* C16: every accepted submission with adults > 0 carries a room
\* configuration, and its single + 2*double + 2*twin is adults +
\* childrenWithBed; no selected configuration is ever one of another party size.
C16_AcceptedRoomFitsParty ==
    /\ Accepted /\ bookingData.adults > 0 =>
          /\ bookingData.roomConfiguration # null
          /\ Beds(bookingData.roomConfiguration[1])
                = bookingData.adults + bookingData.childrenWithBed
    /\ pc = "form" /\ selectedRoomConfig # null =>
          Beds(selectedRoomConfig[1]) = adults + childrenWithBed

\* three adults and a child with bed, submitted with a four-bed configuration
C16_Witness ==
    /\ Accepted
    /\ adults = 3 /\ childrenWithBed = 1
    /\ selectedRoomConfig # null
    /\ Triple(selectedRoomConfig[1]) = <<0, 1, 1>>

\* C17: an accepted submission has a selected date that is one of
\* tour.availableDates and whose departure is not sold out; the selected date
\* is never that of a sold-out departure.
C17_AcceptedDateAvailable ==
    /\ Accepted =>
          /\ bookingData.departureDate # ""
          /\ bookingData.departureDate \in AvailableDateSet
          /\ dateStatus(tour, bookingData.departureDate) # "sold_out"
    /\ pc = "form" /\ selectedDate # "" =>
          dateStatus(tour, selectedDate) # "sold_out"

\* d1 was submitted while the tour lists the sold-out d3
C17_Witness ==
    /\ Accepted
    /\ selectedDate = "d1"
    /\ "d3" \in AvailableDateSet /\ dateStatus(tour, "d3") = "sold_out"

\* C18: an accepted submission has adults + childrenWithBed +
\* childrenWithoutBed within [tour.minTravelers, tour.maxTravelers].
C18_AcceptedHeadcountInRange ==
    Accepted =>
        LET headcount == bookingData.adults + bookingData.childrenWithBed
                         + bookingData.childrenWithoutBed
        IN tour.minTravelers <= headcount /\ headcount <= tour.maxTravelers

\* a child without bed brings the party of three to the maximum of four
C18_Witness ==
    /\ Accepted
    /\ adults = 3 /\ childrenWithBed = 0 /\ childrenWithoutBed = 1
    /\ tour.maxTravelers = 4 /\ totalPax = 3

\* C19: an accepted submission has a non-empty name, email and phone.
C19_AcceptedContactFilled ==
    Accepted =>
        /\ bookingData.customerName # ""
        /\ bookingData.customerEmail # ""
        /\ bookingData.customerPhone # ""

C19_Witness ==
    /\ Accepted
    /\ customerName = "x" /\ customerEmail = "x" /\ customerPhone = "x"
    /\ error = ""

\* the selection-validity rules
SelectionValid ==
    /\ selectedDate \in AvailableDateSet
    /\ dateStatus(tour, selectedDate) # "sold_out"
    /\ adults > 0 =>
          /\ selectedRoomConfig # null
          /\ Beds(selectedRoomConfig[1]) = adults + childrenWithBed
    /\ tour.minTravelers <= adults + childrenWithBed + childrenWithoutBed
    /\ adults + childrenWithBed + childrenWithoutBed <= tour.maxTravelers
    /\ customerName # "" /\ customerEmail # "" /\ customerPhone # ""

\* C20: a handleBooking step taken while a rule is violated rejects: it
\* leaves a non-empty error, does not call onBookingComplete, does not enter
\* processing, and changes none of date, passenger counts, room selection,
\* add-ons and contact fields.
C20_ViolationRejectsAndKeepsForm ==
    [][/\ ~SelectionValid
       /\ lastStep' \in {"accepted", "rejected"}
       /\ <<error, isProcessing, pendingBooking, lastStep>>'
              # <<error, isProcessing, pendingBooking, lastStep>>
       => /\ lastStep' = "rejected"
          /\ error' # ""
          /\ ~isProcessing' /\ ~pendingBooking'
          /\ UNCHANGED <<formVars, selectedRoomConfig, customerName,
                         customerEmail, customerPhone>>]_vars

\* five travelers were refused: the form still holds them and the contact
C20_Witness ==
    /\ Rejected
    /\ error = "Maximum travelers allowed"
    /\ ~isProcessing /\ ~pendingBooking
    /\ adults + childrenWithBed + childrenWithoutBed = 5
    /\ selectedRoomConfig # null /\ customerName = "x"

(***************************************************************************)
(* Ranges of the passenger counts (checked under Spec)                     *)
(***************************************************************************)
\* C30: adults stays within 1..10 and the two children counts stay >= 0, so
\* the party size handed to RoomConfiguration is >= 1 and the list of
\* configurations it offers is never empty.
C30_CountsInRangeRoomsOffered ==
    pc = "form" =>
        /\ adults \in MIN_ADULTS..MAX_ADULTS
        /\ childrenWithBed >= 0 /\ childrenWithoutBed >= 0
        /\ adults + childrenWithBed >= 1
        /\ roomSectionMounted(selectedDate, adults) =>
              /\ totalPax = adults + childrenWithBed
              /\ configurations = generatedFor[totalPax]
              /\ Len(configurations) >= 1

\* the minus button took adults down to 1: one single room is on offer
C30_Witness ==
    /\ pc = "form" /\ selectedDate # ""
    /\ adults = 1 /\ childrenWithBed = 0
    /\ Len(configurations) = 1
    /\ Triple(configurations[1]) = <<1, 0, 0>>

\* the plus button took adults up to 10
C30_WitnessMost ==
    /\ pc = "form" /\ adults = MAX_ADULTS /\ childrenWithBed = 1
    /\ Len(configurations) > 1

(***************************************************************************)
(* Payment and booking creation (checked under SpecPayment)                *)
(***************************************************************************)
\* the user is told that the payment went through and the booking did not
SupportStateShown ==
    \/ alerted
    \/ screen = "PaymentResponse" /\ status = "failed"
       /\ message = MSG_BOOKING_FAILED

\* C21: in the Razorpay handler and on the payment-response page alike, once
\* the payment was taken and the booking-creation call has failed, the user
\* is in the contact-support state, no booking confirmation is shown, and no
\* further booking-creation request is under way.
C21_PaidButUnbookedIsSupportState ==
    paid /\ createFailed =>
        /\ SupportStateShown
        /\ confirmedBooking = null
        /\ screen # "BookingConfirmation"
        /\ widget # "create" /\ run # "create"

\* C22: outside test mode a booking-creation request is sent, and a booking
\* is confirmed, only after the backend verified the payment successfully.
C22_BookingOnlyAfterVerification ==
    ~testMode =>
        /\ requests > 0 => verified
        /\ created > 0 => verified
        /\ confirmedBooking # null => verified
        /\ locationState # null => verified

\* C23: a call of BookingWidget.handleBooking that has ended has handed off
\* to a gateway, confirmed a booking, or thrown; it never just returned.
C23_HandleBookingNeverSilent ==
    /\ result \in {"", "handoffHDFC", "handoffRazorpay", "confirmed", "thrown"}
    /\ result = "confirmed" => confirmedBooking # null

\* C24: the payload handed to onBookingComplete carries the form's contact
\* details, date, counts, room configuration and add-on ids; its prices are
\* the displayed breakdown and its totalPrice is their sum; the amount of the
\* payment order, when one is requested, is the payload's totalPrice.
C24_PayloadIsFormAndBreakdown ==
    submitted # null =>
        LET data == submitted[1]
        IN /\ data.customerName = customerName
           /\ data.customerEmail = customerEmail
           /\ data.customerPhone = customerPhone
           /\ data.departureDate = selectedDate
           /\ data.adults = adults
           /\ data.childrenWithBed = childrenWithBed
           /\ data.childrenWithoutBed = childrenWithoutBed
           /\ data.roomConfiguration = selectedRoomConfig
           /\ data.addons = selectedAddons
           /\ data.basePrice = basePrice
           /\ data.childrenPrice = childrenPrice
           /\ data.roomPrice = roomPrice
           /\ data.addonsPrice = addonsPrice
           /\ data.totalPrice = data.basePrice + data.childrenPrice
                                + data.roomPrice + data.addonsPrice
           /\ data.totalPrice = totalPrice
           /\ IF testMode THEN orderAmount = null
              ELSE orderAmount = Some(data.totalPrice)

\* an order was requested for a party with a child, a room supplement and
\* two add-ons, so that every part of the breakdown is positive
C24_Witness ==
    /\ submitted # null /\ orderAmount # null
    /\ submitted[1].childrenPrice > 0
    /\ submitted[1].roomPrice > 0
    /\ submitted[1].addonsPrice > 0
    /\ submitted[1].addons = <<"a2", "a1">>
    /\ orderAmount[1] > submitted[1].basePrice

\* the draft is in sessionStorage while the browser is at the gateway
DraftWrittenBeforeRedirect == route = "gateway" => draft # null

\* the only step that removes the draft is the successful return of the
\* booking request of the page
DraftRemovedOnlyOnSuccess ==
    draft # null /\ draft' = null =>
        run = "create" /\ run' = "timer" /\ created' = created + 1

\* a verification or a booking request that fails leaves the draft in place
DraftKeptOnFailure ==
    /\ run = "verify" /\ run' = "failedVerify" => draft' = draft
    /\ run = "create" /\ run' = "failedCreate" => draft' = draft /\ draft' # null

\* a verification that succeeds and finds no draft sends no booking request
\* and ends in failed with the contact-support message
NoDraftNoRequest ==
    run = "verify" /\ run' \notin {"verify", "failedVerify"} /\ draft = null =>
        /\ requests' = requests
        /\ run' = "failedNoDraft"
        /\ status' = "failed" /\ message' = MSG_NO_DRAFT

\* C25: the HDFC booking draft is written to sessionStorage before the
\* redirect to the gateway, is removed only after booking creation has
\* succeeded, is still there after a failed verification or creation, and
\* when it is missing after a successful verification no booking request is
\* sent and the page ends failed with the contact-support message.
C25_DraftLifecycle ==
    /\ []DraftWrittenBeforeRedirect
    /\ [][/\ DraftRemovedOnlyOnSuccess
          /\ DraftKeptOnFailure
          /\ NoDraftNoRequest]_vars

\* the page was loaded again after the booking was created: the draft is
\* gone and the second run ends without a second request
C25_Witness ==
    /\ run = "failedNoDraft" /\ draft = null
    /\ loads = 2 /\ created = 1 /\ requests = 1
    /\ status = "failed" /\ message = MSG_NO_DRAFT

\* a booking request failed and the draft is still stored
C25_WitnessKept == run = "failedCreate" /\ draft # null /\ created = 0

\* C26: for one draft written before the HDFC redirect, at most one
\* booking-creation request succeeds, however often the payment-response
\* page is loaded and whatever requests of earlier loads are still under way.
C26_AtMostOneBookingPerDraft ==
    result = "handoffHDFC" => created <= 1

\* the positions in which a run of verifyPayment has ended
EndedRuns ==
    {"failedNoOrder", "failedVerify", "failedNoDraft", "failedCreate",
     "timer", "navigated"}

\* C27: a run of verifyPayment whose calls have returned or failed leaves
\* status success or failed, never loading; it leaves success only when the
\* verification and the booking creation both succeeded; without an order id
\* in the URL it leaves failed and has sent no request to the backend.
C27_RunEndsSuccessOrFailed ==
    /\ run \in EndedRuns =>
          /\ status \in {"success", "failed"}
          /\ status = "success" <=> run \in {"timer", "navigated"}
          /\ status = "success" => verified /\ created >= 1 /\ draft = null
    /\ route = "/payment-response" /\ ~hasOrderId =>
          /\ run = "failedNoOrder"
          /\ status = "failed" /\ message = MSG_NO_ORDER
          /\ requests = 0 /\ inflight = 0 /\ created = 0 /\ ~verified

\* the verification succeeded and the booking request failed
C27_Witness ==
    /\ run = "failedCreate" /\ verified /\ created = 0
    /\ status = "failed" /\ message = MSG_BOOKING_FAILED

\* the gateway came back without an order id
C27_WitnessNoOrder ==
    /\ route = "/payment-response" /\ ~hasOrderId /\ paid
    /\ run = "failedNoOrder" /\ status = "failed"

\* C28: when the timer set after a successful HDFC verification and booking
\* creation navigates to '/', the user is shown the BookingConfirmation.
C28_NavigationShowsConfirmation ==
    [][run = "timer" /\ run' = "navigated" =>
          screen' = "BookingConfirmation"]_vars

\* the ids of the add-ons offered for a date
availableIds(t, date) ==
    LET availableAddons == getAvailableAddons(t, getSelectedDeparture(t, date))
    IN {availableAddons[i].id : i \in 1..Len(availableAddons)}

\* C29: the list of selected add-ons holds no id twice, and every add-on id
\* of a submitted payload is offered for the payload's departure date.
C29_AddonsDistinctAndAvailable ==
    /\ NoDuplicates(selectedAddons)
    /\ submitted # null =>
          /\ NoDuplicates(submitted[1].addons)
          /\ \A i \in 1..Len(submitted[1].addons) :
                submitted[1].addons[i]
                    \in availableIds(tour, submitted[1].departureDate)

\* the form state of the failing submission is one the form reaches: a2 was
\* ticked on d1, then d2 was picked
C29_StaleAddonReachable ==
    selectedDate = "d2" /\ selectedAddons = <<"a2">> /\ selectedRoomConfig # null

=============================================================================
